---- MODULE Spec2Model ----
(***************************************************************************)
(* WebGPUBufferManager: raw buffer creation, aligned upload, mapped        *)
(* read-back and deferred, reference-counted release.                      *)
(*                                                                         *)
(* A GPUBuffer is an index into gpuBuffers, a WebGPUDataBuffer an index    *)
(* into dataBuffers.  An ArrayBuffer is described by its byteLength and    *)
(* its contents: the caller's storage holds the byte i + 1 at index i (a   *)
(* pattern that tells every position apart and is never 0), a scratch      *)
(* buffer holds the bytes copied into it followed by zeros.                *)
(***************************************************************************)
EXTENDS Integers, Sequences, FiniteSets, TLC

VARIABLES
    engine,                  \* this._engine: [uniqueId, isDisposed]
    gpuBuffers,              \* the device buffers created: [size, destroyed]
    dataBuffers,             \* the WebGPUDataBuffer handles created
    deferredReleaseBuffers,  \* this._deferredReleaseBuffers
    mapRequests,             \* read-backs whose mapAsync promise is pending
    lastCall,                \* the call that ran last, with what it returned
    args,                    \* the arguments the calls are made with
    subSurface,              \* a SubSurfaceConfiguration's profile arrays
    frameGraph               \* what record() put into the frame graph

vars == <<engine, gpuBuffers, dataBuffers, deferredReleaseBuffers,
          mapRequests, lastCall, args, subSurface, frameGraph>>

----------------------------------------------------------------------------
(* Bounds of the model. *)

MaxGpuBuffers == 1
MaxReferences == 2
MaxOverRelease == 1
MaxQueue == 2
MaxDestroys == 1
MaxMapRequests == 1
MaxEngineId == 2
MaxByteLength == 6
MaxDstOffset == 4
MaxReadWords == 3
MaxDestWords == 4
MaxHeight == 2
MaxBytesPerRow == 4
MaxRecords == 1

(* The largest int32: the bitwise operators of the source work on int32. *)
Int32Max == 2147483647

----------------------------------------------------------------------------
(* int32 arithmetic of the bitwise operators. *)

\* ToInt32(a + b) for an int32 a and 0 <= b <= Int32Max: the sum is exact
\* in the source (a double) and wraps when & coerces it to int32.
Int32OfSum(a, b) ==
    IF a > Int32Max - b
    THEN (a - Int32Max - 1) + (b - Int32Max - 1)
    ELSE a + b

\* x & 3 on an int32 (two's complement: the low two bits).
And3(x) == x % 4

\* x & ~3 on an int32: the low two bits cleared.
AndNot3(x) == x - (x % 4)

----------------------------------------------------------------------------
(* Array buffers and views. *)

\* The caller's ArrayBuffer of n bytes: byte i is i + 1.
CallerBuffer(n) == [byteLength |-> n, from |-> 0, copied |-> n]

\* An ArrayBufferView: byteLength bytes of buffer, from byteOffset on.
View(buffer, byteOffset, byteLength) ==
    [buffer |-> buffer, byteOffset |-> byteOffset, byteLength |-> byteLength]

\* The byte at index i of an ArrayBuffer: the first `copied` bytes are the
\* caller's bytes from index `from` on, the rest is zero.
ByteAt(buffer, i) == IF i < buffer.copied THEN buffer.from + i + 1 ELSE 0

\* viewOrSize arguments: a number of bytes, or a view.
SizeArg(n) == [isView |-> FALSE, size |-> n]
ViewArg(v) == [isView |-> TRUE, view |-> v]

NoBuffer == 0
NoWrite == [buffer |-> NoBuffer]
NoArgs == [none |-> TRUE]

----------------------------------------------------------------------------
(* createRawBuffer *)

\* A length taken as asked, not rounded up.
ExactLength(viewOrSize) ==
    IF viewOrSize.isView THEN viewOrSize.view.byteLength ELSE viewOrSize.size

\* ((n + 3) & ~3), as the source computes it.
AlignedLength(viewOrSize) ==
    IF viewOrSize.isView
    THEN AndNot3(Int32OfSum(viewOrSize.view.byteLength, 3))
    ELSE AndNot3(Int32OfSum(viewOrSize.size, 3))

\* device.createBuffer(descriptor): the size is a GPUSize64, a negative one is
\* refused with a TypeError and no buffer is made.
DeviceCreates(descriptor) == descriptor.size >= 0

RawBufferDescriptor(viewOrSize) == [size |-> AlignedLength(viewOrSize)]

NewGpuBuffer(descriptor) == [size |-> descriptor.size, destroyed |-> 0]

CreateRawBuffer(viewOrSize) ==
    /\ Len(gpuBuffers) < MaxGpuBuffers
    /\ LET descriptor == RawBufferDescriptor(viewOrSize)
       IN /\ gpuBuffers' = IF DeviceCreates(descriptor)
                           THEN Append(gpuBuffers, NewGpuBuffer(descriptor))
                           ELSE gpuBuffers
          /\ lastCall' = [op |-> "createRawBuffer",
                          viewOrSize |-> viewOrSize,
                          descriptor |-> descriptor,
                          threw |-> ~DeviceCreates(descriptor),
                          ret |-> IF DeviceCreates(descriptor)
                                  THEN Len(gpuBuffers) + 1 ELSE NoBuffer,
                          accessed |-> {}]
    /\ UNCHANGED <<engine, dataBuffers, deferredReleaseBuffers, mapRequests,
                   args, subSurface, frameGraph>>

----------------------------------------------------------------------------
(* setRawData and setSubData *)

\* setRawData: srcByteOffset += src.byteOffset, then queue.writeBuffer.
SetRawData(buffer, dstByteOffset, src, srcByteOffset, byteLength) ==
    [buffer |-> buffer,
     bufferOffset |-> dstByteOffset,
     data |-> src.buffer,
     dataOffset |-> srcByteOffset + src.byteOffset,
     size |-> byteLength]

\* What setSubData does with its arguments: whether it throws, and the
\* setRawData call it makes otherwise.
SubData(buffer, dstByteOffset0, src0, srcByteOffset0, byteLength0) ==
    LET originalByteLength ==
            IF byteLength0 # 0 THEN byteLength0
            ELSE src0.byteLength - srcByteOffset0
        startPre == And3(dstByteOffset0)
        srcByteOffset1 == srcByteOffset0 - startPre
        dstByteOffset == dstByteOffset0 - startPre
        byteLength == AndNot3(Int32OfSum(originalByteLength, startPre + 3))
        backingBufferSize == src0.buffer.byteLength - src0.byteOffset
        useTmp == backingBufferSize < byteLength
        \* new Uint8Array(src.buffer, copyStart, originalByteLength) throws a
        \* RangeError when the range is not inside src.buffer.
        copyStart == src0.byteOffset + srcByteOffset1
        rangeError ==
            \/ copyStart < 0
            \/ copyStart + originalByteLength > src0.buffer.byteLength
        \* tmpBuffer.set(...): the bytes land at index 0 of the zeroed buffer.
        tmpBuffer ==
            View([byteLength |-> byteLength,
                  from |-> copyStart,
                  copied |-> originalByteLength], 0, byteLength)
        src == IF useTmp THEN tmpBuffer ELSE src0
        srcByteOffset == IF useTmp THEN 0 ELSE srcByteOffset1
    IN  [threw |-> useTmp /\ rangeError,
         startPre |-> startPre,
         originalByteLength |-> originalByteLength,
         useTmp |-> useTmp,
         write |-> IF useTmp /\ rangeError THEN NoWrite
                   ELSE SetRawData(buffer, dstByteOffset, src, srcByteOffset,
                                   byteLength)]

SetSubData(dataBuffer, dstByteOffset, src, srcByteOffset, byteLength) ==
    /\ dataBuffer \in 1..Len(dataBuffers)
    /\ LET buffer == dataBuffers[dataBuffer].buffer
           call == SubData(buffer, dstByteOffset, src, srcByteOffset,
                           byteLength)
       IN lastCall' = [op |-> "setSubData",
                       dataBuffer |-> dataBuffer,
                       call |-> call,
                       threw |-> call.threw,
                       write |-> call.write,
                       accessed |-> IF call.threw THEN {} ELSE {buffer}]
    /\ UNCHANGED <<engine, gpuBuffers, dataBuffers, deferredReleaseBuffers,
                   mapRequests, args, subSurface, frameGraph>>

----------------------------------------------------------------------------
(* createBuffer *)

\* A capacity taken from the allocation.
AlignedCapacity(viewOrSize) == AlignedLength(viewOrSize)

\* isView ? viewOrSize.byteLength : viewOrSize
RequestedByteLength(viewOrSize) ==
    IF viewOrSize.isView THEN viewOrSize.view.byteLength ELSE viewOrSize.size

CreateBuffer(viewOrSize) ==
    /\ Len(gpuBuffers) < MaxGpuBuffers
    /\ LET descriptor == RawBufferDescriptor(viewOrSize)
           buffer == Len(gpuBuffers) + 1
           dataBuffer ==
               [buffer |-> buffer,
                references |-> 1,
                capacity |-> RequestedByteLength(viewOrSize),
                engineId |-> engine.uniqueId]
           \* this.setSubData(dataBuffer, 0, viewOrSize)
           call == SubData(buffer, 0, viewOrSize.view, 0, 0)
           wrote == viewOrSize.isView /\ ~call.threw
           threw == viewOrSize.isView /\ call.threw
       IN IF ~DeviceCreates(descriptor)
          THEN /\ lastCall' = [op |-> "createBuffer", threw |-> TRUE,
                               viewOrSize |-> viewOrSize,
                               descriptor |-> descriptor,
                               ret |-> NoBuffer, wrote |-> FALSE,
                               write |-> NoWrite, accessed |-> {}]
               /\ UNCHANGED <<gpuBuffers, dataBuffers>>
          ELSE /\ gpuBuffers' = Append(gpuBuffers, NewGpuBuffer(descriptor))
               /\ dataBuffers' = IF threw THEN dataBuffers
                                 ELSE Append(dataBuffers, dataBuffer)
               /\ lastCall' = [op |-> "createBuffer", threw |-> threw,
                               viewOrSize |-> viewOrSize,
                               descriptor |-> descriptor,
                               ret |-> IF threw THEN NoBuffer
                                       ELSE Len(dataBuffers) + 1,
                               wrote |-> wrote,
                               write |-> IF wrote THEN call.write
                                         ELSE NoWrite,
                               accessed |-> IF wrote THEN {buffer} ELSE {}]
    /\ UNCHANGED <<engine, deferredReleaseBuffers, mapRequests, args,
                   subSurface, frameGraph>>

\* A second holder of a handle takes its reference (dataBuffer.references++
\* in the code that shares the buffer).
AddReference(dataBuffer) ==
    /\ dataBuffer \in 1..Len(dataBuffers)
    /\ dataBuffers[dataBuffer].references >= 1
    /\ dataBuffers[dataBuffer].references < MaxReferences
    /\ dataBuffers' = [dataBuffers EXCEPT
                          ![dataBuffer].references = @ + 1]
    /\ lastCall' = [op |-> "addReference", dataBuffer |-> dataBuffer,
                    accessed |-> {}]
    /\ UNCHANGED <<engine, gpuBuffers, deferredReleaseBuffers, mapRequests,
                   args, subSurface, frameGraph>>

----------------------------------------------------------------------------
(* releaseBuffer and destroyDeferredBuffers *)

\* What releaseBuffer is given: a GPUBuffer or a WebGPUDataBuffer.
GpuRef(b) == [isData |-> FALSE, id |-> b]
DataRef(h) == [isData |-> TRUE, id |-> h]

\* _IsGPUBuffer: a GPUBuffer has no underlyingResource.
IsGPUBuffer(buffer) == ~buffer.isData

\* The comparison taken as "no reference is left".
ReachedZeroOrBelow(references) == references <= 0

\* buffer.references === 0
ReachedZero(references) == references = 0

\* A release that leaves out a raw buffer the queue already holds.
ReleaseSkippingQueued(buffer, queue, handles) ==
    IF IsGPUBuffer(buffer)
    THEN IF \E i \in 1..Len(queue) : queue[i] = buffer.id
         THEN [queue |-> queue, handles |-> handles, ret |-> FALSE]
         ELSE [queue |-> Append(queue, buffer.id), handles |-> handles,
               ret |-> TRUE]
    ELSE LET references == handles[buffer.id].references - 1
             released == [handles EXCEPT ![buffer.id].references = references]
         IN IF ReachedZero(references)
            THEN [queue |-> Append(queue, handles[buffer.id].buffer),
                  handles |-> released, ret |-> TRUE]
            ELSE [queue |-> queue, handles |-> released, ret |-> FALSE]

\* releaseBuffer on the manager's fields: the fields after it and what it
\* returns.
Release(buffer, queue, handles) ==
    IF IsGPUBuffer(buffer)
    THEN [queue |-> Append(queue, buffer.id), handles |-> handles,
          ret |-> TRUE]
    ELSE LET references == handles[buffer.id].references - 1
             released == [handles EXCEPT ![buffer.id].references = references]
         IN IF ReachedZero(references)
            THEN [queue |-> Append(queue, handles[buffer.id].buffer),
                  handles |-> released, ret |-> TRUE]
            ELSE [queue |-> queue, handles |-> released, ret |-> FALSE]

ReleaseBuffer(buffer) ==
    /\ IF buffer.isData
       THEN /\ buffer.id \in 1..Len(dataBuffers)
            /\ dataBuffers[buffer.id].references > 0 - MaxOverRelease
       ELSE buffer.id \in 1..Len(gpuBuffers)
    /\ Len(deferredReleaseBuffers) < MaxQueue
    /\ LET r == Release(buffer, deferredReleaseBuffers, dataBuffers)
       IN /\ deferredReleaseBuffers' = r.queue
          /\ dataBuffers' = r.handles
          /\ lastCall' = [op |-> "releaseBuffer", buffer |-> buffer,
                          ret |-> r.ret, accessed |-> {}]
    /\ UNCHANGED <<engine, gpuBuffers, mapRequests, args, subSurface, frameGraph>>

\* How often b occurs in the queue.
Occurrences(queue, b) == Cardinality({i \in 1..Len(queue) : queue[i] = b})

\* A loop that stops one entry short.
SweptAllButLast(queue) == 1..(Len(queue) - 1)

\* for (let i = 0; i < length; ++i): the entries the sweep visits.
Swept(queue) == 1..Len(queue)

\* A queue that keeps its entries.
NotTruncated(queue, length) == queue

\* this._deferredReleaseBuffers.length = 0
Truncated(queue, length) == SubSeq(queue, 1, length)

DestroyDeferredBuffers ==
    /\ \A b \in 1..Len(gpuBuffers) :
           gpuBuffers[b].destroyed
               + Occurrences(deferredReleaseBuffers, b) <= MaxDestroys
    /\ gpuBuffers' =
           [b \in 1..Len(gpuBuffers) |->
               [gpuBuffers[b] EXCEPT !.destroyed =
                   @ + Cardinality({i \in Swept(deferredReleaseBuffers) :
                                       deferredReleaseBuffers[i] = b})]]
    /\ deferredReleaseBuffers' = Truncated(deferredReleaseBuffers, 0)
    /\ lastCall' = [op |-> "destroyDeferredBuffers",
                    destroys |-> Cardinality(Swept(deferredReleaseBuffers)),
                    accessed |-> {}]
    /\ UNCHANGED <<engine, dataBuffers, mapRequests, args, subSurface, frameGraph>>

----------------------------------------------------------------------------
(* readDataFromBuffer *)

\* The arguments of a read-back other than the buffer and destroyBuffer
\* (width is not used by the code).
ReadArgs(size, height, bytesPerRow, bytesPerRowAligned, type, offset, buffer, noDataConversion) ==
    [size |-> size, height |-> height, bytesPerRow |-> bytesPerRow,
     bytesPerRowAligned |-> bytesPerRowAligned, type |-> type,
     offset |-> offset, buffer |-> buffer,
     noDataConversion |-> noDataConversion]

\* buffer = null
Null == [isNull |-> TRUE]

\* const floatFormat = type === FLOAT ? 2 : type === HALF_FLOAT ? 1 : 0
FloatFormat(type) ==
    IF type = "FLOAT" THEN 2 ELSE IF type = "HALF_FLOAT" THEN 1 ELSE 0

\* An ArrayBuffer of a read-back is the sequence of its bytes (index i of
\* the code is position i + 1).  A new ArrayBuffer is zero-filled.
Zeros(n) == [i \in 1..n |-> 0]

\* The device buffer holds the byte k + 1 at index k; getMappedRange(offset,
\* size) is an ArrayBuffer of size bytes with the bytes from offset on.
MappedRange(offset, size) == [i \in 1..size |-> offset + i]

\* A typed array: kind "u8", "u16" or "f32", over bytes, from byteOffset,
\* of length elements.
BytesPerElement(kind) ==
    IF kind = "f32" THEN 4 ELSE IF kind = "u16" THEN 2 ELSE 1

TypedArray(kind, bytes, byteOffset, length) ==
    [isNull |-> FALSE, kind |-> kind, bytes |-> bytes,
     byteOffset |-> byteOffset, length |-> length]

ByteLength(view) == view.length * BytesPerElement(view.kind)

\* new Kind(arrayBuffer) throws a RangeError unless the byte length is a
\* multiple of the element size.
WholeBufferFits(kind, bytes) == Len(bytes) % BytesPerElement(kind) = 0

WholeBuffer(kind, bytes) ==
    TypedArray(kind, bytes, 0, Len(bytes) \div BytesPerElement(kind))

\* target.set(source) for two arrays of the same kind over whole buffers:
\* the bytes of source land at the start of target.
SetBytes(target, source) ==
    [i \in 1..Len(target) |-> IF i <= Len(source) THEN source[i] ELSE target[i]]

\* The byte k (0..3) of the float FromHalfFloat gives for the 16-bit value
\* whose bytes are lo and hi.
FromHalfFloatByte(lo, hi, k) == [half |-> <<lo, hi>>, byte |-> k]

\* _getHalfFloatAsFloatRGBAArrayBuffer: destArray[i] = FromHalfFloat(
\* srcData[i]) for i < dataLength; an index outside destArray is ignored.
GetHalfFloatAsFloatRGBAArrayBuffer(dataLength, arrayBuffer, destArray) ==
    [destArray EXCEPT !.bytes =
        [j \in 1..Len(destArray.bytes) |->
            LET at == (j - 1) - destArray.byteOffset
                element == at \div 4
            IN IF /\ at >= 0
                  /\ element < destArray.length
                  /\ element < dataLength
               THEN FromHalfFloatByte(arrayBuffer[2 * element + 1],
                                      arrayBuffer[2 * element + 2], at % 4)
               ELSE destArray.bytes[j]]]

\* What a step of the completion handler gives: an exception, or a value.
Thrown == [threw |-> TRUE]
Returned(data) == [threw |-> FALSE, data |-> data]

\* new Kind(target).set(new Kind(source)): a RangeError when a byte length
\* is not a multiple of the element size or source is longer than target.
SetInto(kind, target, source) ==
    IF \/ ~WholeBufferFits(kind, target)
       \/ ~WholeBufferFits(kind, source)
       \/ Len(source) > Len(target)
    THEN Thrown
    ELSE Returned(WholeBuffer(kind, SetBytes(target, source)))

\* The array type allocateAndCopyTypedBuffer uses for a texture type.
KindOfType(type) ==
    IF type = "FLOAT" THEN "f32"
    ELSE IF type = "HALF_FLOAT" THEN "u16" ELSE "u8"

\* allocateAndCopyTypedBuffer(type, sizeOrDstBuffer, sizeInBytes,
\* copyBuffer): an array of the texture type, newly allocated or over the
\* given buffer, that receives the bytes of copyBuffer unconverted.
AllocateAndCopyTypedBuffer(type, dstBuffer, copyBuffer) ==
    SetInto(KindOfType(type), dstBuffer, copyBuffer)

\* Lines 143-182: the data produced from the mapped range.
Converted(read, copyArrayBuffer) ==
    LET size == read.size
        data == read.buffer
        floatFormat == FloatFormat(read.type)
    IN IF read.noDataConversion
       THEN IF data.isNull
            THEN AllocateAndCopyTypedBuffer(read.type, Zeros(size),
                                            copyArrayBuffer)
            ELSE AllocateAndCopyTypedBuffer(read.type, data.bytes,
                                            copyArrayBuffer)
       ELSE IF data.isNull
            THEN CASE floatFormat = 0 ->
                          SetInto("u8", Zeros(size), copyArrayBuffer)
                   [] floatFormat = 1 ->
                          IF ~WholeBufferFits("u16", copyArrayBuffer)
                          THEN Thrown
                          ELSE Returned(GetHalfFloatAsFloatRGBAArrayBuffer(
                                   size \div 2, copyArrayBuffer,
                                   WholeBuffer("f32",
                                               Zeros(4 * (size \div 2)))))
                   [] floatFormat = 2 ->
                          SetInto("f32", Zeros(4 * (size \div 4)),
                                  copyArrayBuffer)
            ELSE CASE floatFormat = 0 ->
                          SetInto("u8", data.bytes, copyArrayBuffer)
                   [] floatFormat = 1 ->
                          IF ~WholeBufferFits("u16", copyArrayBuffer)
                          THEN Thrown
                          ELSE Returned(GetHalfFloatAsFloatRGBAArrayBuffer(
                                   size \div 2, copyArrayBuffer, data))
                   [] floatFormat = 2 ->
                          SetInto("f32", data.bytes, copyArrayBuffer)

\* A read that finds no byte anywhere.
ReadNothing(data2, i) == 0

\* data2[i] read: undefined outside the array, which a store turns into 0.
ReadByte(data2, i) == IF i < Len(data2) THEN data2[i + 1] ELSE 0

\* data2[i] = v: ignored outside the array.
WriteByte(data2, i, v) ==
    IF i < Len(data2) THEN [data2 EXCEPT ![i + 1] = v] ELSE data2

\* for (let x = 0; x < bytesPerRow; ++x) data2[offset++] = data2[offset2++]
RECURSIVE CopyRow(_, _, _, _)
CopyRow(data2, offset, offset2, n) ==
    IF n <= 0 THEN data2
    ELSE CopyRow(WriteByte(data2, offset, ReadByte(data2, offset2)),
                 offset + 1, offset2 + 1, n - 1)

\* for (let y = 1; y < height; ++y): the bytes and offset after the loop.
RECURSIVE CompactRows(_, _, _, _, _, _)
CompactRows(data2, offset, y, height, bytesPerRow, bytesPerRowAligned) ==
    IF y >= height THEN [bytes |-> data2, offset |-> offset]
    ELSE CompactRows(CopyRow(data2, offset, y * bytesPerRowAligned,
                             bytesPerRow),
                     offset + (IF bytesPerRow > 0 THEN bytesPerRow ELSE 0),
                     y + 1, height, bytesPerRow, bytesPerRowAligned)

\* Lines 183-204: the rows of data packed, and the view over them.
Compacted(read, data) ==
    IF read.bytesPerRow = read.bytesPerRowAligned THEN Returned(data)
    ELSE LET promoted == FloatFormat(read.type) = 1 /\ ~read.noDataConversion
             bytesPerRow == IF promoted THEN read.bytesPerRow * 2
                            ELSE read.bytesPerRow
             bytesPerRowAligned == IF promoted
                                   THEN read.bytesPerRowAligned * 2
                                   ELSE read.bytesPerRowAligned
             rows == CompactRows(data.bytes, bytesPerRow, 1, read.height,
                                 bytesPerRow, bytesPerRowAligned)
             asFloat == FloatFormat(read.type) # 0 /\ ~read.noDataConversion
             length == IF asFloat THEN rows.offset \div 4 ELSE rows.offset
             kind == IF asFloat THEN "f32" ELSE "u8"
         IN \* new Kind(data2.buffer, 0, length): a RangeError when
            \* the view does not fit the buffer.
            IF length * BytesPerElement(kind) > Len(rows.bytes)
            THEN Thrown
            ELSE Returned(TypedArray(kind, rows.bytes, 0, length))

\* Lines 142-204: what the completion handler computes before it unmaps.
ReadBack(read) ==
    LET converted == Converted(read, MappedRange(read.offset, read.size))
    IN IF converted.threw THEN Thrown
       ELSE Compacted(read, converted.data)

\* The call itself: captures engine.uniqueId and asks the device to map the
\* buffer; the promise stays pending until the device settles the request.
ReadDataFromBuffer(gpuBuffer, read, destroyBuffer) ==
    /\ gpuBuffer \in 1..Len(gpuBuffers)
    /\ Len(mapRequests) < MaxMapRequests
    /\ mapRequests' = Append(mapRequests,
                             [gpuBuffer |-> gpuBuffer,
                              read |-> read,
                              destroyBuffer |-> destroyBuffer,
                              engineId |-> engine.uniqueId])
    /\ lastCall' = [op |-> "readDataFromBuffer", gpuBuffer |-> gpuBuffer,
                    accessed |-> {gpuBuffer}]
    /\ UNCHANGED <<engine, gpuBuffers, dataBuffers, deferredReleaseBuffers,
                   args, subSurface, frameGraph>>

Without(seq, i) == SubSeq(seq, 1, i - 1) \o SubSeq(seq, i + 1, Len(seq))

\* gpuBuffer.mapAsync(Read, offset, size): the device fulfils the request
\* only for a live buffer, an offset that is a multiple of 8, a size that is
\* a multiple of 4 and a range inside the buffer; it rejects any request it
\* does not fulfil, and may reject any request (a lost device).
DeviceMaps(request) ==
    /\ gpuBuffers[request.gpuBuffer].destroyed = 0
    /\ request.read.offset % 8 = 0
    /\ request.read.size % 4 = 0
    /\ request.read.offset + request.read.size
           <= gpuBuffers[request.gpuBuffer].size

\* A completion handler that releases the buffer whatever destroyBuffer is.
ReleasedAlways(request) == TRUE

\* if (destroyBuffer) this.releaseBuffer(gpuBuffer)
ReleasedAfterRead(request) == request.destroyBuffer

\* The calls the completion handler makes, in order; an exception in the
\* conversion ends it before the unmap.
HandlerCalls(threw, released) ==
    IF threw THEN <<"getMappedRange">>
    ELSE <<"getMappedRange", "convert", "unmap">>
             \o (IF released THEN <<"releaseBuffer">> ELSE <<>>)
             \o <<"resolve">>

\* mapAsync fulfilled: getMappedRange, the conversion, unmap, then
\* releaseBuffer(gpuBuffer) when destroyBuffer, then resolve(data).  An
\* exception leaves the handler, and nothing settles the promise.
MapFulfilled(i) ==
    /\ i \in 1..Len(mapRequests)
    /\ DeviceMaps(mapRequests[i])
    /\ LET request == mapRequests[i]
           result == ReadBack(request.read)
           released == ~result.threw /\ ReleasedAfterRead(request)
           r == Release(GpuRef(request.gpuBuffer), deferredReleaseBuffers,
                        dataBuffers)
       IN /\ released => Len(deferredReleaseBuffers) < MaxQueue
          /\ deferredReleaseBuffers' =
                 IF released THEN r.queue ELSE deferredReleaseBuffers
          /\ dataBuffers' = IF released THEN r.handles ELSE dataBuffers
          /\ lastCall' = [op |-> "mapFulfilled", request |-> request,
                          threw |-> result.threw,
                          calls |-> HandlerCalls(result.threw, released),
                          unmapped |-> ~result.threw,
                          settled |-> IF result.threw THEN "pending"
                                      ELSE "resolved",
                          value |-> IF result.threw THEN "none" ELSE "data",
                          data |-> IF result.threw THEN Null
                                   ELSE result.data,
                          accessed |-> {request.gpuBuffer}]
    /\ mapRequests' = Without(mapRequests, i)
    /\ UNCHANGED <<engine, gpuBuffers, args, subSurface, frameGraph>>

\* A handler that converts only the rejections of a disposed engine.
StaleWhenDisposed(request) == engine.isDisposed

\* this._engine.isDisposed || this._engine.uniqueId !== engineId
Stale(request) ==
    engine.isDisposed \/ engine.uniqueId # request.engineId

\* Whether name is one of the calls.
Made(calls, name) == \E k \in 1..Len(calls) : calls[k] = name

\* The clean-up of the completion handler: unmap, then releaseBuffer when
\* destroyBuffer.
CleanupAsOnFulfilled(request) ==
    <<"unmap">> \o (IF request.destroyBuffer THEN <<"releaseBuffer">> ELSE <<>>)

\* The calls the rejection handler makes on the buffer before it settles the
\* promise: none.
RejectionCleanup(request) == <<>>

\* mapAsync rejected: resolve with an empty Uint8Array when the engine is
\* disposed or is no longer the one that started the read, reject otherwise.
MapRejected(i) ==
    /\ i \in 1..Len(mapRequests)
    /\ LET request == mapRequests[i]
           stale == Stale(request)
           cleanup == RejectionCleanup(request)
           released == Made(cleanup, "releaseBuffer")
           r == Release(GpuRef(request.gpuBuffer), deferredReleaseBuffers,
                        dataBuffers)
       IN /\ released => Len(deferredReleaseBuffers) < MaxQueue
          /\ deferredReleaseBuffers' =
                 IF released THEN r.queue ELSE deferredReleaseBuffers
          /\ dataBuffers' = IF released THEN r.handles ELSE dataBuffers
          /\ lastCall' = [op |-> "mapRejected", request |-> request,
                          threw |-> FALSE,
                          calls |-> cleanup \o (IF stale THEN <<"resolve">>
                                                ELSE <<"reject">>),
                          unmapped |-> Made(cleanup, "unmap"),
                          settled |-> IF stale THEN "resolved"
                                      ELSE "rejected",
                          value |-> IF stale THEN "empty" ELSE "reason",
                          data |-> IF stale
                                   THEN TypedArray("u8", <<>>, 0, 0)
                                   ELSE Null,
                          accessed |-> {}]
    /\ mapRequests' = Without(mapRequests, i)
    /\ UNCHANGED <<engine, gpuBuffers, args, subSurface, frameGraph>>

----------------------------------------------------------------------------
(* The engine the manager belongs to. *)

DisposeEngine ==
    /\ ~engine.isDisposed
    /\ engine' = [engine EXCEPT !.isDisposed = TRUE]
    /\ lastCall' = [op |-> "dispose", accessed |-> {}]
    /\ UNCHANGED <<gpuBuffers, dataBuffers, deferredReleaseBuffers,
                   mapRequests, args, subSurface, frameGraph>>

\* A context loss and restoration: the engine comes back under a new id.
RestoreEngine ==
    /\ engine.uniqueId < MaxEngineId
    /\ engine' = [engine EXCEPT !.uniqueId = @ + 1]
    /\ lastCall' = [op |-> "restore", accessed |-> {}]
    /\ UNCHANGED <<gpuBuffers, dataBuffers, deferredReleaseBuffers,
                   mapRequests, args, subSurface, frameGraph>>

----------------------------------------------------------------------------
(* SubSurfaceConfiguration: the diffusion profiles. *)

Color3(r, g, b) == [r |-> r, g |-> g, b |-> b]

Max(a, b) == IF a >= b THEN a ELSE b

\* const cdf = 0.997, in thousandths.
Cdf == 997

\* _sampleBurleyDiffusionProfile(u, rcpS) returns x * rcpS, where x is a
\* function of u alone.
SampleBurleyDiffusionProfile(u, rcpS) == [x |-> u, rcpS |-> rcpS]

GetDiffusionProfileParameters(color) ==
    SampleBurleyDiffusionProfile(Cdf, Max(Max(color.r, color.g), color.b))

\* The arrays of a configuration without profiles.
NoProfiles ==
    [ssDiffusionS |-> <<>>, ssDiffusionD |-> <<>>, ssFilterRadii |-> <<>>,
     ssDiffusionProfileColors |-> <<>>]

\* The number of profiles the configuration supports.
MaxDiffusionProfiles == 5

\* A limit that lets one more profile in.
ProfilesOverFull(ss) == Len(ss.ssDiffusionD) > MaxDiffusionProfiles

\* this.ssDiffusionD.length >= 5
ProfilesFull(ss) == Len(ss.ssDiffusionD) >= MaxDiffusionProfiles

\* The profiles the "do not add doubles" loop takes for the colour: index i
\* when _ssDiffusionS[i * 3], [i * 3 + 1] and [i * 3 + 2] are color.r,
\* color.g and color.b.
Doubles(ss, color) ==
    {i \in 0..((Len(ss.ssDiffusionS) \div 3) - 1) :
        /\ ss.ssDiffusionS[i * 3 + 1] = color.r
        /\ ss.ssDiffusionS[i * 3 + 2] = color.g
        /\ ss.ssDiffusionS[i * 3 + 3] = color.b}

Lowest(indexes) == CHOOSE i \in indexes : \A j \in indexes : i <= j

\* addDiffusionProfile on the arrays: the arrays after it and what it
\* returns.
AddProfile(ss, color) ==
    IF ProfilesFull(ss) THEN [ss |-> ss, ret |-> 0]
    ELSE IF Doubles(ss, color) # {}
    THEN [ss |-> ss, ret |-> Lowest(Doubles(ss, color))]
    ELSE [ss |->
             [ssDiffusionS |->
                  ss.ssDiffusionS \o <<color.r, color.b, color.g>>,
              ssDiffusionD |->
                  Append(ss.ssDiffusionD,
                         Max(Max(color.r, color.b), color.g)),
              ssFilterRadii |->
                  Append(ss.ssFilterRadii,
                         GetDiffusionProfileParameters(color)),
              ssDiffusionProfileColors |->
                  Append(ss.ssDiffusionProfileColors, color)],
          ret |-> Len(ss.ssDiffusionD)]

\* The constructor adds the default profile.
Constructed == AddProfile(NoProfiles, Color3(1, 1, 1)).ss

AddDiffusionProfile(color) ==
    /\ subSurface' = AddProfile(subSurface, color).ss
    /\ lastCall' = [op |-> "addDiffusionProfile", color |-> color,
                    ret |-> AddProfile(subSurface, color).ret,
                    accessed |-> {}]
    /\ UNCHANGED <<engine, gpuBuffers, dataBuffers, deferredReleaseBuffers,
                   mapRequests, args, frameGraph>>

ClearAllDiffusionProfiles ==
    /\ subSurface' = NoProfiles
    /\ lastCall' = [op |-> "clearAllDiffusionProfiles", accessed |-> {}]
    /\ UNCHANGED <<engine, gpuBuffers, dataBuffers, deferredReleaseBuffers,
                   mapRequests, args, frameGraph>>

----------------------------------------------------------------------------
(* FrameGraphTAAObjectRendererTask.record and the frame graph it records   *)
(* into.  Handles are [kind, id] records.                                  *)

Undefined == [kind |-> "undefined", id |-> 0]

backbufferColorTextureHandle == [kind |-> "backbuffer", id |-> 0]

backbufferDepthStencilTextureHandle == [kind |-> "backbuffer", id |-> 1]

\* The handle of a texture of the frame graph, with the number of samples
\* the frame graph holds in the texture's description.
Texture(id, samples) == [kind |-> "texture", id |-> id, samples |-> samples]

\* An object list, and a list of dependencies.
ObjectList == [kind |-> "objectList", id |-> 0]
Dependencies(handles) == [kind |-> "dependencies", id |-> 0, handles |-> handles]

\* The dangling handles of the task: this.outputTexture and
\* this.outputDepthTexture.
OutputTexture == [kind |-> "dangling", id |-> 0]
OutputDepthTexture == [kind |-> "dangling", id |-> 1]

\* this._frameGraph.getTextureDescription(handle)
GetTextureDescription(handle) ==
    [size |-> [width |-> 4, height |-> 2],
     options |-> [samples |-> handle.samples]]

\* The properties of the task that record() reads.
Task(destinationTexture, objectList, depthTexture, dependencies) ==
    [name |-> "taa", destinationTexture |-> destinationTexture,
     objectList |-> objectList, depthTexture |-> depthTexture,
     dependencies |-> dependencies]

\* A frame graph nothing was recorded into: the textures created, the
\* dangling handles resolved and the render passes added.
EmptyFrameGraph == [textures |-> <<>>, resolved |-> <<>>, passes |-> <<>>]

\* A comparison that finds no difference.
SamplesNeverDiffer(depthSamples, outputSamples) == FALSE

\* depthTextureDescription.options.samples !==
\* outputTextureDescription.options.samples
SamplesDiffer(depthSamples, outputSamples) == depthSamples # outputSamples

\* The error record() throws for the task, "none" when it throws none.
RecordError(task) ==
    IF task.destinationTexture = Undefined \/ task.objectList = Undefined
    THEN "destinationTexture and objectList are required"
    ELSE IF \/ task.destinationTexture = backbufferColorTextureHandle
            \/ task.depthTexture = backbufferDepthStencilTextureHandle
    THEN "the back buffer color/depth textures are not allowed"
    ELSE IF /\ task.depthTexture # Undefined
            /\ SamplesDiffer(
                   GetTextureDescription(task.depthTexture).options.samples,
                   GetTextureDescription(task.destinationTexture)
                       .options.samples)
    THEN "must have the same number of samples"
    ELSE "none"

\* The options the history texture is created with.
TextureCreationOptions(outputTextureDescription) ==
    [size |-> outputTextureDescription.size,
     options |-> [samples |-> 1],
     sizeIsPercentage |-> FALSE,
     isHistoryTexture |-> TRUE]

\* createRenderTargetTexture(name, creationOptions): the handle of the
\* texture it adds to the frame graph.
CreatedHandle(fg) == [kind |-> "created", id |-> Len(fg.textures) + 1]

\* addRenderPass(name, whenTaskDisabled) followed by setRenderTarget,
\* setRenderTargetDepth when there is a depth texture, setExecuteFunc, and
\* useTexture for each dependency.
RenderPass(name, whenTaskDisabled, renderTarget, task) ==
    [name |-> name,
     disabled |-> whenTaskDisabled,
     renderTarget |-> renderTarget,
     renderTargetDepth |-> task.depthTexture,
     executeFunc |-> TRUE,
     usedTextures |-> IF task.dependencies # Undefined
                      THEN task.dependencies.handles ELSE {}]

\* What record() leaves in the frame graph when it does not throw.
Recorded(fg, task) ==
    LET outputTextureDescription ==
            GetTextureDescription(task.destinationTexture)
        pingPongHandle == CreatedHandle(fg)
        history == [name |-> <<task.name, " history">>,
                    creationOptions |->
                        TextureCreationOptions(outputTextureDescription)]
        resolved ==
            <<[dangling |-> OutputTexture, handle |-> pingPongHandle]>>
                \o (IF task.depthTexture # Undefined
                    THEN <<[dangling |-> OutputDepthTexture,
                            handle |-> task.depthTexture]>>
                    ELSE <<>>)
        pass == RenderPass(<<task.name>>, FALSE, task.destinationTexture,
                           task)
        passDisabled == RenderPass(<<task.name, "_disabled">>, TRUE,
                                   OutputTexture, task)
    IN [textures |-> Append(fg.textures, history),
        resolved |-> fg.resolved \o resolved,
        passes |-> fg.passes \o <<pass, passDisabled>>]

Record ==
    /\ Len(frameGraph.passes) < 2 * MaxRecords
    /\ LET error == RecordError(args.task)
       IN /\ frameGraph' = IF error = "none"
                           THEN Recorded(frameGraph, args.task)
                           ELSE frameGraph
          /\ lastCall' = [op |-> "record", threw |-> error # "none",
                          error |-> error, accessed |-> {}]
    /\ UNCHANGED <<engine, gpuBuffers, dataBuffers, deferredReleaseBuffers,
                   mapRequests, args, subSurface>>

----------------------------------------------------------------------------
(* The manager's life: buffers created, shared, written, read back,        *)
(* released and swept in any order.                                        *)

Init ==
    /\ engine = [uniqueId |-> 1, isDisposed |-> FALSE]
    /\ gpuBuffers = <<>>
    /\ dataBuffers = <<>>
    /\ deferredReleaseBuffers = <<>>
    /\ mapRequests = <<>>
    /\ lastCall = [op |-> "constructor", accessed |-> {}]
    /\ args = NoArgs
    /\ subSurface = Constructed
    /\ frameGraph = EmptyFrameGraph

\* The views and sizes the calls of this specification are made with.
SomeView == View(CallerBuffer(MaxByteLength), 0, MaxByteLength)
SomeViewOrSizes == {SizeArg(MaxByteLength), ViewArg(SomeView)}

\* A read of the first bytes of a buffer, into a new array.
SomeRead == ReadArgs(4, 1, 4, 4, "UNSIGNED_BYTE", 0, Null, FALSE)

BufferRefs ==
    {GpuRef(b) : b \in 1..Len(gpuBuffers)}
        \cup {DataRef(h) : h \in 1..Len(dataBuffers)}

Next ==
    \/ \E v \in SomeViewOrSizes : CreateRawBuffer(v)
    \/ \E v \in SomeViewOrSizes : CreateBuffer(v)
    \/ \E h \in 1..Len(dataBuffers) : AddReference(h)
    \/ \E h \in 1..Len(dataBuffers) : SetSubData(h, 0, SomeView, 0, 0)
    \/ \E b \in 1..Len(gpuBuffers), destroyBuffer \in BOOLEAN :
           ReadDataFromBuffer(b, SomeRead, destroyBuffer)
    \/ \E i \in 1..Len(mapRequests) : MapFulfilled(i)
    \/ \E i \in 1..Len(mapRequests) : MapRejected(i)
    \/ \E buffer \in BufferRefs : ReleaseBuffer(buffer)
    \/ DestroyDeferredBuffers

Spec == Init /\ [][Next]_vars

----------------------------------------------------------------------------
(* Properties of release and sweep. *)

\* Whether gpu buffer b has been queued for release: it is in the queue, or
\* a sweep has destroyed it (only queued buffers are destroyed).
Queued(b) ==
    \/ \E i \in 1..Len(deferredReleaseBuffers) : deferredReleaseBuffers[i] = b
    \/ b \in 1..Len(gpuBuffers) /\ gpuBuffers[b].destroyed > 0

\* C1: releaseBuffer on a handle lowers references by one; it returns true
\* and appends the handle's raw buffer to the deferred-release queue exactly
\* when the count is 0 after the call, and otherwise returns false and
\* leaves the queue as it was.
ReleaseOfHandleCountsDown ==
    [][(lastCall'.op = "releaseBuffer" /\ lastCall'.buffer.isData) =>
          LET h == lastCall'.buffer.id
              after == dataBuffers'[h].references
          IN /\ after = dataBuffers[h].references - 1
             /\ lastCall'.ret = (after = 0)
             /\ deferredReleaseBuffers' =
                    IF after = 0
                    THEN Append(deferredReleaseBuffers, dataBuffers[h].buffer)
                    ELSE deferredReleaseBuffers]_vars

\* A release of a handle has just brought its count to 0, returned true and
\* queued the raw buffer.
LastReferenceReleased ==
    /\ lastCall.op = "releaseBuffer"
    /\ lastCall.buffer.isData
    /\ lastCall.ret = TRUE
    /\ dataBuffers[lastCall.buffer.id].references = 0
    /\ deferredReleaseBuffers # <<>>
    /\ deferredReleaseBuffers[Len(deferredReleaseBuffers)]
           = dataBuffers[lastCall.buffer.id].buffer

RawReleaseAlwaysQueues ==
    [][(lastCall'.op = "releaseBuffer" /\ ~lastCall'.buffer.isData) =>
          /\ lastCall'.ret = TRUE
          /\ deferredReleaseBuffers' =
                 Append(deferredReleaseBuffers, lastCall'.buffer.id)
          /\ dataBuffers' = dataBuffers
          /\ gpuBuffers' = gpuBuffers]_vars

\* A raw buffer that was in the queue has been released again and is in
\* the queue twice.
RawBufferQueuedTwice ==
    /\ lastCall.op = "releaseBuffer"
    /\ ~lastCall.buffer.isData
    /\ lastCall.ret = TRUE
    /\ Occurrences(deferredReleaseBuffers, lastCall.buffer.id) = 2

\* C3: the references count of every handle is >= 0.
ReferencesNeverNegative ==
    \A h \in 1..Len(dataBuffers) : dataBuffers[h].references >= 0

\* C4: no write, map request or mapped-range access is made on a buffer that
\* has been queued for release.
NoAccessOnceQueued ==
    [][\A b \in lastCall'.accessed : ~Queued(b)]_vars

\* The positions of a call in the calls a handler has made.
Positions(calls, call) == {i \in 1..Len(calls) : calls[i] = call}

\* C14: a completion handler that has produced its data unmaps the buffer
\* once, after the conversion and before it resolves the promise; after the
\* unmap it appends the raw buffer to the deferred-release queue when
\* destroyBuffer is true and leaves the queue as it was when it is false;
\* no reference count changes either way.
ReadBackUnmapsThenReleases ==
    [][(lastCall'.op = "mapFulfilled" /\ ~lastCall'.threw) =>
          LET calls == lastCall'.calls
              request == lastCall'.request
          IN /\ Cardinality(Positions(calls, "unmap")) = 1
             /\ \A u \in Positions(calls, "unmap") :
                    /\ \A c \in Positions(calls, "convert") : c < u
                    /\ \A r \in Positions(calls, "resolve") : u < r
                    /\ \A q \in Positions(calls, "releaseBuffer") : u < q
             /\ Cardinality(Positions(calls, "resolve")) = 1
             /\ dataBuffers' = dataBuffers
             /\ IF request.destroyBuffer
                THEN /\ Cardinality(Positions(calls, "releaseBuffer")) = 1
                     /\ deferredReleaseBuffers' =
                            Append(deferredReleaseBuffers, request.gpuBuffer)
                ELSE /\ Positions(calls, "releaseBuffer") = {}
                     /\ deferredReleaseBuffers' = deferredReleaseBuffers]_vars

\* A read-back of the buffer of a handle has completed with destroyBuffer:
\* the buffer is the last entry of the queue and the handle still has its
\* reference.
ReadBackQueuedBufferOfHandle ==
    /\ lastCall.op = "mapFulfilled"
    /\ ~lastCall.threw
    /\ lastCall.request.destroyBuffer
    /\ deferredReleaseBuffers # <<>>
    /\ deferredReleaseBuffers[Len(deferredReleaseBuffers)]
           = lastCall.request.gpuBuffer
    /\ \E h \in 1..Len(dataBuffers) :
           /\ dataBuffers[h].buffer = lastCall.request.gpuBuffer
           /\ dataBuffers[h].references = 1

----------------------------------------------------------------------------
(* Creation and upload on their own: the arguments are drawn once, then    *)
(* the calls are made with them.                                           *)

\* Every view of a caller's buffer of up to MaxByteLength bytes.
SmallViews ==
    {View(CallerBuffer(t[1]), t[2], t[3]) :
        t \in {u \in (0..MaxByteLength) \X (0..MaxByteLength)
                        \X (0..MaxByteLength) : u[2] + u[3] <= u[1]}}

\* Lengths whose sum with 3 no longer fits an int32.
HugeSizes == {Int32Max - 2, Int32Max - 1, Int32Max}

HugeView == View(CallerBuffer(Int32Max), 0, Int32Max)

\* A window [srcByteOffset, srcByteOffset + byteLength) inside the view src,
\* a destination offset, and the size a buffer is created with.
UploadArgs(size, dstByteOffset, src, srcByteOffset, byteLength) ==
    [size |-> size, dstByteOffset |-> dstByteOffset, src |-> src,
     srcByteOffset |-> srcByteOffset, byteLength |-> byteLength]

SmallArgs(a) ==
    \E src \in SmallViews, size \in 0..MaxByteLength,
       dstByteOffset \in 0..MaxDstOffset :
        \E srcByteOffset \in 0..src.byteLength :
            \E byteLength \in 0..(src.byteLength - srcByteOffset) :
                a = UploadArgs(size, dstByteOffset, src, srcByteOffset,
                               byteLength)

HugeArgs(a) ==
    \E size \in (0..MaxByteLength) \cup HugeSizes,
       dstByteOffset \in 0..MaxDstOffset,
       byteLength \in {0} \cup HugeSizes :
        a = UploadArgs(size, dstByteOffset, HugeView, 0, byteLength)

InitUpload ==
    /\ engine = [uniqueId |-> 1, isDisposed |-> FALSE]
    /\ gpuBuffers = <<>>
    /\ dataBuffers = <<>>
    /\ deferredReleaseBuffers = <<>>
    /\ mapRequests = <<>>
    /\ lastCall = [op |-> "constructor", accessed |-> {}]
    /\ SmallArgs(args) \/ HugeArgs(args)
    /\ subSurface = Constructed
    /\ frameGraph = EmptyFrameGraph

NextUpload ==
    \/ \E v \in {SizeArg(args.size), ViewArg(args.src)} : CreateRawBuffer(v)
    \/ \E v \in {SizeArg(args.size), ViewArg(args.src)} : CreateBuffer(v)
    \/ \E h \in 1..Len(dataBuffers) :
           SetSubData(h, args.dstByteOffset, args.src, args.srcByteOffset,
                      args.byteLength)

SpecUpload == InitUpload /\ [][NextUpload]_vars

----------------------------------------------------------------------------
(* Properties of creation and upload. *)

\* queue.writeBuffer(buffer, bufferOffset, data, dataOffset, size) lands when
\* bufferOffset and size are multiples of 4, the bytes are inside data and
\* the destination range is inside the buffer.
WriteLands(w) ==
    /\ w.buffer # NoBuffer
    /\ w.size >= 0
    /\ w.size % 4 = 0
    /\ w.bufferOffset % 4 = 0
    /\ w.dataOffset >= 0
    /\ w.size <= w.data.byteLength - w.dataOffset
    /\ w.bufferOffset + w.size <= gpuBuffers[w.buffer].size

\* The byte of the device buffer at index k after the write w landed, for k
\* inside the written range.
DeviceByte(w, k) == ByteAt(w.data, w.dataOffset + (k - w.bufferOffset))

\* The arguments of the setSubData call that ran last are small.
SmallCall ==
    /\ lastCall.op = "setSubData"
    /\ args.src.buffer.byteLength <= MaxByteLength

\* The length of the window setSubData is asked to write.
RequestedLength ==
    IF args.byteLength # 0 THEN args.byteLength
    ELSE args.src.byteLength - args.srcByteOffset

\* The byte j of the window of the source.
WindowByte(j) ==
    ByteAt(args.src.buffer, args.src.byteOffset + args.srcByteOffset + j)

\* len is the smallest multiple of 4 that is >= pad + length.
SmallestCover(len, pad, length) ==
    /\ len % 4 = 0
    /\ len >= length
    /\ len - length >= pad
    /\ len - length - pad <= 3

\* C5: after setSubData has written, the bytes of the device buffer in
\* [dstByteOffset, dstByteOffset + length) are the bytes of the source
\* window.
UploadRoundTrip ==
    (SmallCall /\ ~lastCall.threw /\ WriteLands(lastCall.write)) =>
        \A j \in 0..(RequestedLength - 1) :
            DeviceByte(lastCall.write, args.dstByteOffset + j)
                = WindowByte(j)

\* C6: the source range setSubData hands to setRawData is inside the
\* ArrayBuffer it is read from.
UploadSourceInBounds ==
    (SmallCall /\ ~lastCall.threw) =>
        /\ lastCall.write.dataOffset >= 0
        /\ lastCall.write.dataOffset + lastCall.write.size
               <= lastCall.write.data.byteLength

\* C7: setSubData never throws, and makes one setRawData call whose
\* destination offset and length are multiples of 4.
UploadNeverThrows ==
    SmallCall =>
        /\ ~lastCall.threw
        /\ lastCall.write # NoWrite
        /\ lastCall.write.bufferOffset % 4 = 0
        /\ lastCall.write.size % 4 = 0

\* C8: when the source's storage holds fewer than the aligned length bytes
\* from the adjusted source offset on, setSubData writes from offset 0 of a
\* scratch buffer of the aligned length that holds the window at startPre
\* and zeros before and after it.
UploadScratchHoldsWindow ==
    LET startPre == args.dstByteOffset % 4
        aligned == ((RequestedLength + startPre + 3) \div 4) * 4
        available == args.src.buffer.byteLength
                        - (args.src.byteOffset + args.srcByteOffset - startPre)
    IN (SmallCall /\ ~lastCall.threw /\ available < aligned) =>
           /\ lastCall.write.data # args.src.buffer
           /\ lastCall.write.data.byteLength = aligned
           /\ lastCall.write.dataOffset = 0
           /\ lastCall.write.size = aligned
           /\ \A i \in 0..(aligned - 1) :
                  ByteAt(lastCall.write.data, i) =
                      IF i >= startPre /\ i < startPre + RequestedLength
                      THEN WindowByte(i - startPre)
                      ELSE 0

\* C9: setSubData passes dstByteOffset - (dstByteOffset mod 4) to setRawData
\* as the destination offset, and as the length the smallest multiple of 4
\* that covers the window from there, which starts at most 3 bytes before
\* the window and ends at most 3 bytes after it.
UploadWindowAligned ==
    (lastCall.op = "setSubData" /\ ~lastCall.threw) =>
        /\ lastCall.write.bufferOffset
               = args.dstByteOffset - (args.dstByteOffset % 4)
        /\ args.dstByteOffset - lastCall.write.bufferOffset <= 3
        /\ SmallestCover(lastCall.write.size, args.dstByteOffset % 4,
                         RequestedLength)

\* C10: createRawBuffer asks the device for a size that is a multiple of 4,
\* is >= the requested size and exceeds it by at most 3.
RawBufferSizeRoundedUp ==
    lastCall.op = "createRawBuffer" =>
        LET requested == IF lastCall.viewOrSize.isView
                         THEN lastCall.viewOrSize.view.byteLength
                         ELSE lastCall.viewOrSize.size
        IN SmallestCover(lastCall.descriptor.size, 0, requested)

----------------------------------------------------------------------------
(* Read-backs while the engine is torn down: the engine is disposed or     *)
(* comes back under a new identity while map requests are pending.         *)

NextTeardown ==
    \/ \E v \in SomeViewOrSizes : CreateRawBuffer(v)
    \/ \E v \in SomeViewOrSizes : CreateBuffer(v)
    \/ \E b \in 1..Len(gpuBuffers), destroyBuffer \in BOOLEAN :
           ReadDataFromBuffer(b, SomeRead, destroyBuffer)
    \/ \E i \in 1..Len(mapRequests) : MapFulfilled(i)
    \/ \E i \in 1..Len(mapRequests) : MapRejected(i)
    \/ DisposeEngine
    \/ RestoreEngine

SpecTeardown == Init /\ [][NextTeardown]_vars

\* The engine is disposed, or is not the one the request was made under.
TornDown(request) ==
    engine.isDisposed \/ engine.uniqueId # request.engineId

\* C11: a read-back captures the engine's identity when it is called; when
\* the device rejects its map request, the promise resolves with an empty
\* byte view exactly when the engine is disposed or its identity is no
\* longer the captured one, and rejects with the device's reason otherwise.
RejectionResolvesEmptyIffTornDown ==
    [][/\ lastCall'.op = "readDataFromBuffer" =>
              mapRequests'[Len(mapRequests')].engineId = engine.uniqueId
       /\ lastCall'.op = "mapRejected" =>
              IF TornDown(lastCall'.request)
              THEN /\ lastCall'.settled = "resolved"
                   /\ lastCall'.value = "empty"
                   /\ ByteLength(lastCall'.data) = 0
              ELSE /\ lastCall'.settled = "rejected"
                   /\ lastCall'.value = "reason"]_vars

\* The device has rejected the map request of a read-back made under an
\* earlier identity of an engine that is not disposed, and the promise has
\* resolved empty.
RejectedAfterRestoreResolvedEmpty ==
    /\ lastCall.op = "mapRejected"
    /\ ~engine.isDisposed
    /\ engine.uniqueId # lastCall.request.engineId
    /\ lastCall.settled = "resolved"
    /\ lastCall.value = "empty"

\* C17: the handle createBuffer returns has references = 1, the identity
\* the engine has at the call as engineId, and the requested byte length
\* (the view's byteLength or the size), not the aligned size of its device
\* buffer, as capacity.
CreatedHandleFields ==
    (lastCall.op = "createBuffer" /\ ~lastCall.threw) =>
        LET dataBuffer == dataBuffers[lastCall.ret]
            requested == IF lastCall.viewOrSize.isView
                         THEN lastCall.viewOrSize.view.byteLength
                         ELSE lastCall.viewOrSize.size
        IN /\ dataBuffer.references = 1
           /\ dataBuffer.engineId = engine.uniqueId
           /\ dataBuffer.capacity = requested
           /\ dataBuffer.buffer = Len(gpuBuffers)
           /\ gpuBuffers[dataBuffer.buffer].size = lastCall.descriptor.size

\* createBuffer has returned a handle for a view of 6 bytes, whose device
\* buffer has 8, under the second identity of the engine.
HandleCreatedAfterRestore ==
    /\ lastCall.op = "createBuffer"
    /\ ~lastCall.threw
    /\ lastCall.viewOrSize.isView
    /\ engine.uniqueId > 1
    /\ dataBuffers[lastCall.ret].capacity
           < gpuBuffers[dataBuffers[lastCall.ret].buffer].size

\* C12: when the engine is disposed or has a new identity by the time the
\* device settles the map request, fulfilled or rejected, the promise
\* resolves with an empty byte view.
TornDownReadResolvesEmpty ==
    [][(/\ lastCall'.op \in {"mapFulfilled", "mapRejected"}
        /\ TornDown(lastCall'.request)) =>
           /\ lastCall'.settled = "resolved"
           /\ lastCall'.value = "empty"]_vars

----------------------------------------------------------------------------
(* Read-backs on their own: the arguments of the read are drawn once, then *)
(* a buffer is created, read back, and the device settles the request.     *)

\* The sizes a read-back maps, in bytes.
ReadSizes == {4 * k : k \in 0..MaxReadWords}

\* The padding the device adds to a row.
RowPaddings == {0, 4}

\* The offsets a read-back maps from.
ReadOffsets == {0, 8}

\* The destinations a caller supplies for a texture type: an array over a
\* whole buffer of its own, or one that starts 4 bytes into its buffer.
Destinations(type) ==
    LET kind == IF type = "UNSIGNED_BYTE" THEN "u8" ELSE "f32"
    IN {WholeBuffer(kind, Zeros(4 * k)) : k \in 1..MaxDestWords}
           \cup {TypedArray(kind, Zeros(4 * MaxDestWords), 4,
                            (4 * MaxDestWords - 4)
                                \div BytesPerElement(kind))}

TextureTypes == {"UNSIGNED_BYTE", "HALF_FLOAT", "FLOAT"}

SomeReadArgs(a) ==
    \E size \in ReadSizes, height \in 1..MaxHeight,
       bytesPerRow \in 1..MaxBytesPerRow, padding \in RowPaddings,
       type \in TextureTypes, offset \in ReadOffsets,
       noDataConversion \in BOOLEAN :
        \E buffer \in {Null} \cup Destinations(type) :
            a = [read |-> ReadArgs(size, height, bytesPerRow,
                                   bytesPerRow + padding, type, offset,
                                   buffer, noDataConversion)]

InitReadBack ==
    /\ engine = [uniqueId |-> 1, isDisposed |-> FALSE]
    /\ gpuBuffers = <<>>
    /\ dataBuffers = <<>>
    /\ deferredReleaseBuffers = <<>>
    /\ mapRequests = <<>>
    /\ lastCall = [op |-> "constructor", accessed |-> {}]
    /\ SomeReadArgs(args)
    /\ subSurface = Constructed
    /\ frameGraph = EmptyFrameGraph

\* A buffer that holds every range the read-backs map.
ReadBufferSize == 8 + 4 * MaxReadWords

\* One buffer, and one read-back of it at a time.
NextReadBack ==
    \/ gpuBuffers = <<>> /\ CreateRawBuffer(SizeArg(ReadBufferSize))
    \/ \E b \in 1..Len(gpuBuffers), destroyBuffer \in BOOLEAN :
           /\ mapRequests = <<>>
           /\ ReadDataFromBuffer(b, args.read, destroyBuffer)
    \/ \E i \in 1..Len(mapRequests) : MapFulfilled(i)
    \/ \E i \in 1..Len(mapRequests) : MapRejected(i)

SpecReadBack == InitReadBack /\ [][NextReadBack]_vars

\* How many of the calls settle the promise.
Settles(calls) ==
    Cardinality({i \in 1..Len(calls) : calls[i] \in {"resolve", "reject"}})

\* C13: when the device settles the map request of a read-back, the handler
\* that runs settles the promise exactly once, so that the promise is not
\* left pending.
SettledMapSettlesPromise ==
    [][lastCall'.op \in {"mapFulfilled", "mapRejected"} =>
          /\ Settles(lastCall'.calls) = 1
          /\ lastCall'.settled \in {"resolved", "rejected"}]_vars

\* The read-back whose map request the device has just fulfilled.
FulfilledRead == lastCall.request.read

\* Half floats have been promoted to floats by the conversion.
Promoted ==
    FloatFormat(FulfilledRead.type) = 1 /\ ~FulfilledRead.noDataConversion

\* The widths of a row and of a padded row in the converted data.
RowWidth ==
    IF Promoted THEN 2 * FulfilledRead.bytesPerRow
    ELSE FulfilledRead.bytesPerRow

AlignedRowWidth ==
    IF Promoted THEN 2 * FulfilledRead.bytesPerRowAligned
    ELSE FulfilledRead.bytesPerRowAligned

\* The bytes of the converted data before the rows are packed.
PreCompaction ==
    Converted(FulfilledRead,
              MappedRange(FulfilledRead.offset, FulfilledRead.size)).data.bytes

\* The conversion has produced data that holds every padded row the read
\* names, in whole elements of the array that is returned.
RowsInData ==
    LET converted == Converted(FulfilledRead,
                               MappedRange(FulfilledRead.offset,
                                           FulfilledRead.size))
        floats == FloatFormat(FulfilledRead.type) # 0
                      /\ ~FulfilledRead.noDataConversion
    IN /\ ~converted.threw
       /\ (FulfilledRead.height - 1) * AlignedRowWidth + RowWidth
              <= Len(converted.data.bytes)
       /\ floats => (RowWidth * FulfilledRead.height) % 4 = 0

\* A read-back with padded rows has been fulfilled.
PaddedReadFulfilled ==
    /\ lastCall.op = "mapFulfilled"
    /\ FulfilledRead.bytesPerRowAligned > FulfilledRead.bytesPerRow
    /\ FulfilledRead.height >= 1

\* The returned view holds the rows packed: byte x of row y is the byte x
\* of the padded row y of the data before compaction, and the view is as
\* long as the rows.
RowsPacked ==
    /\ ~lastCall.threw
    /\ ByteLength(lastCall.data) = RowWidth * FulfilledRead.height
    /\ lastCall.data.byteOffset = 0
    /\ \A y \in 0..(FulfilledRead.height - 1), x \in 0..(RowWidth - 1) :
           /\ y * AlignedRowWidth + x < Len(PreCompaction)
           /\ y * RowWidth + x < Len(lastCall.data.bytes)
           /\ lastCall.data.bytes[y * RowWidth + x + 1]
                  = PreCompaction[y * AlignedRowWidth + x + 1]

ViewByte(view, k) == view.bytes[view.byteOffset + k + 1]

\* The byte k of the mapped range after the conversion the read asks for:
\* the byte itself, or a byte of the float promoted from the half that
\* holds it.
ConvertedByte(k) ==
    LET mapped == MappedRange(FulfilledRead.offset, FulfilledRead.size)
        element == k \div 4
    IN IF FloatFormat(FulfilledRead.type) = 1
       THEN FromHalfFloatByte(mapped[2 * element + 1],
                              mapped[2 * element + 2], k % 4)
       ELSE mapped[k + 1]

\* C16: a converting read-back with bytesPerRow = bytesPerRowAligned
\* returns size bytes for the byte type, size / 4 floats for the float type
\* and size / 2 promoted floats for the half-float type, whose bytes are the
\* converted bytes of the mapped range, into a new destination or into the
\* caller's.
UnpaddedReadIsMappedRange ==
    (/\ lastCall.op = "mapFulfilled"
     /\ FulfilledRead.bytesPerRow = FulfilledRead.bytesPerRowAligned
     /\ ~FulfilledRead.noDataConversion) =>
        /\ ~lastCall.threw
        /\ lastCall.data.length =
               CASE FloatFormat(FulfilledRead.type) = 0 -> FulfilledRead.size
                 [] FloatFormat(FulfilledRead.type) = 1 ->
                        FulfilledRead.size \div 2
                 [] FloatFormat(FulfilledRead.type) = 2 ->
                        FulfilledRead.size \div 4
        /\ \A k \in 0..(ByteLength(lastCall.data) - 1) :
               ViewByte(lastCall.data, k) = ConvertedByte(k)

----------------------------------------------------------------------------
(* The diffusion profiles of a SubSurfaceConfiguration: profiles are added *)
(* and cleared in any order.                                               *)

\* The colours profiles are added for.
SomeColors ==
    {Color3(1, 1, 1), Color3(1, 2, 3), Color3(1, 3, 2), Color3(2, 2, 2)}

NextSubSurface ==
    \/ \E color \in SomeColors : AddDiffusionProfile(color)
    \/ ClearAllDiffusionProfiles

SpecSubSurface == Init /\ [][NextSubSurface]_vars

\* The number of profiles an array of one entry per profile holds.
Stored(ss) == Len(ss.ssDiffusionD)

\* At most 5 profiles, and every array as long as its entries per profile
\* make it.
InStep(ss) ==
    /\ Stored(ss) <= 5
    /\ Len(ss.ssDiffusionS) = 3 * Stored(ss)
    /\ Len(ss.ssFilterRadii) = Stored(ss)
    /\ Len(ss.ssDiffusionProfileColors) = Stored(ss)

\* C20: before and after every addDiffusionProfile and
\* clearAllDiffusionProfiles call at most 5 profiles are stored and the
\* arrays are in step; addDiffusionProfile with 5 profiles stored returns 0
\* and changes no array.
ProfilesBoundedAndInStep ==
    [][/\ InStep(subSurface)
       /\ InStep(subSurface')
       /\ (lastCall'.op = "addDiffusionProfile" /\ Stored(subSurface) = 5) =>
              /\ lastCall'.ret = 0
              /\ subSurface' = subSurface]_vars

\* addDiffusionProfile has been called with 5 profiles stored, for a colour
\* that is none of them, and has returned 0.
SixthProfileRefused ==
    /\ lastCall.op = "addDiffusionProfile"
    /\ lastCall.ret = 0
    /\ Stored(subSurface) = 5
    /\ \A i \in 1..5 : subSurface.ssDiffusionProfileColors[i] # lastCall.color

\* C21: the number addDiffusionProfile(color) returns is the index of a
\* stored profile whose colour has the r, g and b of the argument.
ReturnedIndexHoldsColor ==
    lastCall.op = "addDiffusionProfile" =>
        /\ lastCall.ret < Stored(subSurface)
        /\ subSurface.ssDiffusionProfileColors[lastCall.ret + 1]
               = lastCall.color

\* The indexes of the stored profiles that have the colour.
ProfilesOf(ss, color) ==
    {i \in 0..(Stored(ss) - 1) : ss.ssDiffusionProfileColors[i + 1] = color}

\* C27: with fewer than 5 profiles stored, addDiffusionProfile for a colour
\* that is stored returns the index of a profile of that colour and leaves
\* the arrays unchanged, and for a colour that is not stored appends one
\* profile whose diffusion triple is the colour's r, g, b.
DoublesNotAddedOthersAppended ==
    [][(lastCall'.op = "addDiffusionProfile" /\ Stored(subSurface) < 5) =>
          LET color == lastCall'.color
              n == Stored(subSurface)
          IN IF ProfilesOf(subSurface, color) # {}
             THEN /\ lastCall'.ret \in ProfilesOf(subSurface, color)
                  /\ subSurface' = subSurface
             ELSE /\ lastCall'.ret = n
                  /\ Stored(subSurface') = n + 1
                  /\ subSurface'.ssDiffusionProfileColors
                         = Append(subSurface.ssDiffusionProfileColors, color)
                  /\ subSurface'.ssDiffusionS
                         = subSurface.ssDiffusionS
                               \o <<color.r, color.g, color.b>>]_vars

----------------------------------------------------------------------------
(* createBuffer's initial upload. *)

\* C22: a createBuffer call that returns has, when given a view, made one
\* device write to the new buffer at destination offset 0, of the size the
\* buffer was allocated with, that lands and puts the bytes of the whole
\* view at the start of the buffer; given a size it has made no write.
CreateBufferUploadsWholeView ==
    (lastCall.op = "createBuffer" /\ ~lastCall.threw) =>
        IF lastCall.viewOrSize.isView
        THEN LET view == lastCall.viewOrSize.view
                 w == lastCall.write
             IN /\ lastCall.wrote
                /\ w.buffer = dataBuffers[lastCall.ret].buffer
                /\ w.bufferOffset = 0
                /\ w.size = lastCall.descriptor.size
                /\ w.size = gpuBuffers[w.buffer].size
                /\ w.size >= view.byteLength
                /\ WriteLands(w)
                /\ \A j \in 0..(view.byteLength - 1) :
                       DeviceByte(w, j) = ByteAt(view.buffer, view.byteOffset + j)
        ELSE /\ ~lastCall.wrote
             /\ lastCall.write = NoWrite

\* createBuffer returned for a view that starts inside its ArrayBuffer and
\* whose length is not a multiple of 4.
CreatedFromUnalignedView ==
    /\ lastCall.op = "createBuffer"
    /\ ~lastCall.threw
    /\ lastCall.viewOrSize.isView
    /\ lastCall.viewOrSize.view.byteOffset > 0
    /\ lastCall.viewOrSize.view.byteLength % 4 # 0
    /\ lastCall.wrote

----------------------------------------------------------------------------
(* The queue of deferred releases. *)

\* C23: a raw buffer occurs at most once in the queue of deferred releases,
\* and is destroyed at most once.
RawBufferQueuedAtMostOnce ==
    \A b \in 1..Len(gpuBuffers) :
        /\ Occurrences(deferredReleaseBuffers, b) <= 1
        /\ gpuBuffers[b].destroyed <= 1

----------------------------------------------------------------------------
(* Handles that are only released: no reference is ever added. *)

NextOverRelease ==
    \/ \E v \in SomeViewOrSizes : CreateBuffer(v)
    \/ \E b \in 1..Len(gpuBuffers), destroyBuffer \in BOOLEAN :
           ReadDataFromBuffer(b, SomeRead, destroyBuffer)
    \/ \E i \in 1..Len(mapRequests) : MapFulfilled(i)
    \/ \E i \in 1..Len(mapRequests) : MapRejected(i)
    \/ \E b \in BufferRefs : ReleaseBuffer(b)
    \/ DestroyDeferredBuffers

SpecOverRelease == Init /\ [][NextOverRelease]_vars

\* C24: a handle is created with references 1, the count never goes up, and
\* a releaseBuffer call on the handle takes 1 off it, returns true exactly
\* when the count was 1 before the call, and puts the handle's buffer at the
\* end of the queue in that case and leaves the queue alone otherwise: of
\* all the releases of a handle the first one, and only it, returns true and
\* enqueues.
OnlyFirstReleaseOfHandleEnqueues ==
    [][/\ \A h \in 1..Len(dataBuffers) :
              /\ dataBuffers[h].references <= 1
              /\ dataBuffers'[h].references <= dataBuffers[h].references
       /\ \A h \in (Len(dataBuffers) + 1)..Len(dataBuffers') :
              dataBuffers'[h].references = 1
       /\ (lastCall'.op = "releaseBuffer" /\ lastCall'.buffer.isData) =>
              LET h == lastCall'.buffer.id
              IN /\ dataBuffers'[h].references = dataBuffers[h].references - 1
                 /\ lastCall'.ret = (dataBuffers[h].references = 1)
                 /\ deferredReleaseBuffers' =
                        IF dataBuffers[h].references = 1
                        THEN Append(deferredReleaseBuffers,
                                    dataBuffers[h].buffer)
                        ELSE deferredReleaseBuffers]_vars

\* A handle has been released after its count reached 0: the call returned
\* false and the handle's buffer is in the queue once.
HandleOverReleased ==
    /\ lastCall.op = "releaseBuffer"
    /\ lastCall.buffer.isData
    /\ lastCall.ret = FALSE
    /\ dataBuffers[lastCall.buffer.id].references < 0
    /\ deferredReleaseBuffers = <<dataBuffers[lastCall.buffer.id].buffer>>

----------------------------------------------------------------------------
(* The widened window of an upload and the allocation. *)

\* The handle of the setSubData call that ran last.
WrittenHandle == dataBuffers[lastCall.dataBuffer]

\* The setSubData call that ran last made a write asked to stay inside the
\* capacity of its handle.
WriteInsideCapacity ==
    /\ lastCall.op = "setSubData"
    /\ ~lastCall.threw
    /\ args.dstByteOffset >= 0
    /\ RequestedLength <= WrittenHandle.capacity - args.dstByteOffset

\* C25: when setSubData is asked to write [dstByteOffset, dstByteOffset +
\* length) inside the capacity C of the handle, the window it writes starts
\* at dstByteOffset - (dstByteOffset mod 4), has the aligned length, and lies
\* inside the device buffer, whose size is ((C + 3) & ~3).
WidenedWindowInsideAllocation ==
    WriteInsideCapacity =>
        LET w == lastCall.write
            startPre == args.dstByteOffset % 4
            allocation == gpuBuffers[WrittenHandle.buffer].size
        IN /\ w.buffer = WrittenHandle.buffer
           /\ w.bufferOffset = args.dstByteOffset - startPre
           /\ SmallestCover(w.size, startPre, RequestedLength)
           /\ allocation = ((WrittenHandle.capacity + 3) \div 4) * 4
           /\ w.bufferOffset >= 0
           /\ w.bufferOffset + w.size <= allocation

\* A write that begins off a multiple of 4, ends at a capacity that is not a
\* multiple of 4, and whose widened window ends with the allocation.
WidenedWindowReachesEnd ==
    /\ WriteInsideCapacity
    /\ args.dstByteOffset % 4 # 0
    /\ WrittenHandle.capacity % 4 # 0
    /\ RequestedLength = WrittenHandle.capacity - args.dstByteOffset
    /\ lastCall.write.bufferOffset < args.dstByteOffset
    /\ lastCall.write.bufferOffset + lastCall.write.size
           = gpuBuffers[WrittenHandle.buffer].size

----------------------------------------------------------------------------
(* A rejected map request. *)

\* C26: the rejection handler of readDataFromBuffer, whether it resolves
\* with the empty array or rejects, does not unmap the buffer and does not
\* release it, also when destroyBuffer is true: the queue of deferred
\* releases, the handles with their references and the device buffers are
\* what they were.
RejectionLeavesBufferAlone ==
    [][lastCall'.op = "mapRejected" =>
          /\ lastCall'.settled \in {"resolved", "rejected"}
          /\ ~lastCall'.unmapped
          /\ ~Made(lastCall'.calls, "unmap")
          /\ ~Made(lastCall'.calls, "releaseBuffer")
          /\ deferredReleaseBuffers' = deferredReleaseBuffers
          /\ dataBuffers' = dataBuffers
          /\ gpuBuffers' = gpuBuffers]_vars

\* A read with destroyBuffer was rejected and resolved empty, with a buffer
\* in the queue from an earlier read.
RejectedReadWithDestroyResolved ==
    /\ lastCall.op = "mapRejected"
    /\ lastCall.request.destroyBuffer
    /\ lastCall.settled = "resolved"
    /\ deferredReleaseBuffers # <<>>
    /\ dataBuffers # <<>>

----------------------------------------------------------------------------
(* Recording the TAA object renderer task: the properties of the task are  *)
(* drawn once, then record() is called.                                    *)

DestinationTextures ==
    {Undefined, backbufferColorTextureHandle, Texture(2, 1), Texture(3, 4)}

DepthTextures ==
    {Undefined, backbufferDepthStencilTextureHandle, Texture(4, 1),
     Texture(5, 4)}

ObjectLists == {Undefined, ObjectList}

DependencyLists ==
    {Undefined, Dependencies({}), Dependencies({Texture(6, 1)}),
     Dependencies({Texture(6, 1), Texture(7, 4)})}

InitTAA ==
    /\ engine = [uniqueId |-> 1, isDisposed |-> FALSE]
    /\ gpuBuffers = <<>>
    /\ dataBuffers = <<>>
    /\ deferredReleaseBuffers = <<>>
    /\ mapRequests = <<>>
    /\ lastCall = [op |-> "constructor", accessed |-> {}]
    /\ \E destinationTexture \in DestinationTextures,
          objectList \in ObjectLists,
          depthTexture \in DepthTextures,
          dependencies \in DependencyLists :
           args = [task |-> Task(destinationTexture, objectList,
                                 depthTexture, dependencies)]
    /\ subSurface = Constructed
    /\ frameGraph = EmptyFrameGraph

NextTAA == Record

SpecTAA == InitTAA /\ [][NextTAA]_vars

\* The task is one record() has to refuse: destinationTexture or objectList
\* is undefined, destinationTexture is the back buffer's colour handle,
\* depthTexture is the back buffer's depth/stencil handle, or the depth
\* texture has another number of samples than the destination texture.
Refused(task) ==
    \/ task.destinationTexture = Undefined
    \/ task.objectList = Undefined
    \/ task.destinationTexture = backbufferColorTextureHandle
    \/ task.depthTexture = backbufferDepthStencilTextureHandle
    \/ /\ task.depthTexture \notin {Undefined,
                                    backbufferDepthStencilTextureHandle}
       /\ task.destinationTexture \notin {Undefined,
                                          backbufferColorTextureHandle}
       /\ task.depthTexture.samples # task.destinationTexture.samples

\* C28: record() throws and leaves the frame graph as it was (no history
\* texture created, no dangling handle resolved, no render pass added) when
\* the task is one to refuse; otherwise it does not throw, creates the
\* history texture and adds two render passes, the task's and the
\* "_disabled" one.
RecordRefusesOrAddsTwoPasses ==
    [][lastCall'.op = "record" =>
          IF Refused(args.task)
          THEN /\ lastCall'.threw
               /\ frameGraph' = frameGraph
          ELSE /\ ~lastCall'.threw
               /\ Len(frameGraph'.textures) = Len(frameGraph.textures) + 1
               /\ Len(frameGraph'.passes) = Len(frameGraph.passes) + 2
               /\ SubSeq(frameGraph'.passes, 1, Len(frameGraph.passes))
                      = frameGraph.passes
               /\ LET n == Len(frameGraph.passes)
                      pass == frameGraph'.passes[n + 1]
                      passDisabled == frameGraph'.passes[n + 2]
                  IN /\ pass.name = <<args.task.name>>
                     /\ ~pass.disabled
                     /\ passDisabled.name = <<args.task.name, "_disabled">>
                     /\ passDisabled.disabled]_vars

\* record() threw because the depth texture and the destination texture
\* differ in their number of samples, and nothing is in the frame graph.
RecordRefusedSamples ==
    /\ lastCall.op = "record"
    /\ lastCall.threw
    /\ lastCall.error = "must have the same number of samples"
    /\ args.task.depthTexture.samples # args.task.destinationTexture.samples
    /\ frameGraph = EmptyFrameGraph

====
